---- MODULE Spec2Model ----
(***************************************************************************)
(* The evaluation-metrics pipeline of src/app6.py: one run of the script   *)
(* over one uploaded table.  The script is straight-line code; every       *)
(* action below is one block of it (load, numeric normalisation, summary   *)
(* metrics, categorical conversion, tab1 .. tab8).  An exception raised    *)
(* inside a block ends the run there: what the block had shown before the  *)
(* raising statement stays shown, nothing after it is computed.            *)
(*                                                                         *)
(* Column names are ASCII here; the source's names are                     *)
(*   dept = 부서, rank = 직급, total = 총점, prev_total = 전년도총점,      *)
(*   grade = 종합등급, competency = 역량점수, performance = 성과점수,      *)
(*   tenure = 근무기간, emp_id = 사번, name = 성명,                        *)
(*   change = 변화량, score_change = 점수변화량,                           *)
(*   abs_change = 변화량_절대값, growth_pct = 성장률(%),                   *)
(*   score_diff = 점수차이, tenure_bin = 근속구간.                         *)
(***************************************************************************)
EXTENDS Integers, Sequences, FiniteSets, TLC

VARIABLES
    uploaded_file,  \* the uploaded sheet: [columns |-> set of headers, rows |-> Seq of raw rows]
    columns,        \* df.columns
    df,             \* the rows of df, each a function from columns to cells
    shown,          \* what the page shows: artifact name -> value
    pc,             \* the block of the script that runs next
    err             \* the exception that ended the run, or "none"

vars == <<uploaded_file, columns, df, shown, pc, err>>

-----------------------------------------------------------------------------
(* float64 values.  A finite value is an exact fraction n/d in lowest      *)
(* terms (rounding is not modelled); inf, -inf and nan are values of their *)
(* own, with IEEE-754 arithmetic and comparisons.                          *)

RECURSIVE Gcd(_, _)
Gcd(a, b) == IF b = 0 THEN a ELSE Gcd(b, a % b)

Abs(i) == IF i < 0 THEN -i ELSE i

NaN == [k |-> "nan", n |-> 0, d |-> 1]
PosInf == [k |-> "inf", n |-> 1, d |-> 1]
NegInf == [k |-> "inf", n |-> -1, d |-> 1]

\* n/d, d /= 0, in lowest terms with a positive denominator
Fin(n, d) ==
    LET g == Gcd(Abs(n), Abs(d))
        s == IF d < 0 THEN -1 ELSE 1
    IN  [k |-> "fin", n |-> (s * n) \div g, d |-> (s * d) \div g]

Zero == Fin(0, 1)

IsNaN(a) == a.k = "nan"
IsInf(a) == a.k = "inf"
IsFin(a) == a.k = "fin"

Sign(a) == IF a.n > 0 THEN 1 ELSE IF a.n < 0 THEN -1 ELSE 0

InfOf(s) == IF s < 0 THEN NegInf ELSE PosInf

FNeg(a) == IF IsNaN(a) THEN NaN ELSE [a EXCEPT !.n = -a.n]

FAdd(a, b) ==
    IF IsNaN(a) \/ IsNaN(b) THEN NaN
    ELSE IF IsInf(a) THEN (IF IsInf(b) /\ b.n # a.n THEN NaN ELSE a)
    ELSE IF IsInf(b) THEN b
    ELSE Fin(a.n * b.d + b.n * a.d, a.d * b.d)

FSub(a, b) == FAdd(a, FNeg(b))

FMul(a, b) ==
    IF IsNaN(a) \/ IsNaN(b) THEN NaN
    ELSE IF IsInf(a) \/ IsInf(b)
         THEN (IF Sign(a) = 0 \/ Sign(b) = 0 THEN NaN ELSE InfOf(Sign(a) * Sign(b)))
    ELSE Fin(a.n * b.n, a.d * b.d)

\* a / b; a finite value over 0.0 is inf, -inf or (0/0) nan
FDiv(a, b) ==
    IF IsNaN(a) \/ IsNaN(b) THEN NaN
    ELSE IF IsInf(a) THEN (IF IsInf(b) THEN NaN
                           ELSE InfOf(Sign(a) * (IF Sign(b) < 0 THEN -1 ELSE 1)))
    ELSE IF IsInf(b) THEN Zero
    ELSE IF b.n = 0 THEN (IF a.n = 0 THEN NaN ELSE InfOf(Sign(a)))
    ELSE Fin(a.n * b.d, a.d * b.n)

FAbs(a) == IF IsNaN(a) THEN NaN ELSE [a EXCEPT !.n = Abs(a.n)]

\* a < b; false when either is nan
FLt(a, b) ==
    /\ ~IsNaN(a)
    /\ ~IsNaN(b)
    /\ IF IsInf(a) THEN a.n < 0 /\ b # a
       ELSE IF IsInf(b) THEN b.n > 0
       ELSE a.n * b.d < b.n * a.d

FLe(a, b) == ~IsNaN(a) /\ ~IsNaN(b) /\ (a = b \/ FLt(a, b))
FGt(a, b) == FLt(b, a)
FGe(a, b) == FLe(b, a)

Num(i) == Fin(i, 1)

-----------------------------------------------------------------------------
(* Column names and the cells of the uploaded sheet.                       *)

Dept == "dept"
Rank == "rank"
Total == "total"
PrevTotal == "prev_total"
Grade == "grade"
Competency == "competency"
Performance == "performance"
Tenure == "tenure"
EmpId == "emp_id"
Name == "name"

Change == "change"
ScoreChange == "score_change"
AbsChange == "abs_change"
GrowthPct == "growth_pct"
ScoreDiff == "score_diff"
TenureBin == "tenure_bin"

InputColumns ==
    {Dept, Rank, Total, PrevTotal, Grade, Competency, Performance, Tenure, EmpId, Name}
DerivedColumns == {Change, ScoreChange, AbsChange, GrowthPct, ScoreDiff, TenureBin}

target_cols == <<Performance, Competency, Total, Tenure, PrevTotal>>

rank_order == <<"bujang", "chajang", "gwajang", "daeri", "sawon">>
grade_order == <<"S", "A", "B", "C", "D">>

\* the missing value of a non-numeric cell (None / NaN in an object column)
NA == "<NA>"

\* a cell of a sheet: a number, a text, or an empty cell
NumCell(v) == [t |-> "num", v |-> v, s |-> ""]
TextCell(s) == [t |-> "text", v |-> NaN, s |-> s]
BlankCell == [t |-> "blank", v |-> NaN, s |-> ""]

Range(f) == {f[i] : i \in DOMAIN f}

\* f with key a set to v (a dict / column assignment)
Put(f, a, v) == [x \in (DOMAIN f) \cup {a} |-> IF x = a THEN v ELSE f[x]]

\* the float a text parses to; nan when it is no number
ParseFloat(s) ==
    CASE s = "inf" -> PosInf
      [] s = "-inf" -> NegInf
      [] s = "Infinity" -> PosInf
      [] s = "1e999" -> PosInf
      [] s = "12.5" -> Fin(25, 2)
      [] s = "-3" -> Num(-3)
      [] OTHER -> NaN

\* pd.to_numeric(x, errors='coerce') of one cell, as float
to_numeric(c) ==
    CASE c.t = "num" -> c.v
      [] c.t = "blank" -> NaN
      [] OTHER -> ParseFloat(c.s)

fillna(v, with) == IF IsNaN(v) THEN with ELSE v

\* line 26: pd.to_numeric(df[col], errors='coerce').astype(float).fillna(0.0)
Coerce(c) == fillna(to_numeric(c), Zero)

IsTarget(c) == \E i \in DOMAIN target_cols : target_cols[i] = c

\* pd.read_excel: an empty cell of a text column reads as a missing value
ReadCell(col, c) ==
    IF col \in {Dept, Rank, Grade, Name} /\ c = "" THEN NA ELSE c

read_excel(file) ==
    [i \in DOMAIN file.rows |->
        [c \in file.columns |-> ReadCell(c, file.rows[i][c])]]

-----------------------------------------------------------------------------
(* Series helpers.                                                         *)

Column(rows, c) == [i \in DOMAIN rows |-> rows[i][c]]

\* the sum of the values of s (pairwise, as numpy sums)
RECURSIVE SumSeq(_)
SumSeq(s) ==
    IF s = <<>> THEN Zero
    ELSE IF Len(s) = 1 THEN s[1]
    ELSE LET h == Len(s) \div 2
         IN  FAdd(SumSeq(SubSeq(s, 1, h)), SumSeq(SubSeq(s, h + 1, Len(s))))

DropNaN(s) == SelectSeq(s, LAMBDA v : ~IsNaN(v))

\* Series.mean(): nan values are skipped; the mean of nothing is nan
Mean(s) == FDiv(SumSeq(DropNaN(s)), Num(Len(DropNaN(s))))

\* df[c] = values, row by row
WithColumn(rows, c, values) == [i \in DOMAIN rows |-> Put(rows[i], c, values[i])]

\* total - prior of one row
Delta(r) == FSub(r[Total], r[PrevTotal])

\* df[total] - df[prior]
Deltas(rows) == [i \in DOMAIN rows |-> Delta(rows[i])]

Project(r, cs) == [c \in cs |-> r[c]]

ProjectAll(rows, cs) == [i \in DOMAIN rows |-> Project(rows[i], cs)]

\* whether key a sorts strictly before key b; nan keys sort last
Before(a, b, ascending) ==
    IF IsNaN(a) THEN FALSE
    ELSE IF IsNaN(b) THEN TRUE
    ELSE IF ascending THEN FLt(a, b) ELSE FGt(a, b)

\* sort_values over [key, item] records: the record at i lands after every
\* record that sorts before it and after the earlier records that tie with it
sort_values(s, ascending) ==
    LET Ahead(j, i) == \/ Before(s[j].key, s[i].key, ascending)
                       \/ (~Before(s[i].key, s[j].key, ascending) /\ j < i)
        pos == [i \in DOMAIN s |-> 1 + Cardinality({j \in DOMAIN s : Ahead(j, i)})]
    IN  [p \in DOMAIN s |-> s[CHOOSE i \in DOMAIN s : pos[i] = p]]

Keyed(rows, c) == [i \in DOMAIN rows |-> [key |-> rows[i][c], item |-> rows[i]]]

Items(s) == [i \in DOMAIN s |-> s[i].item]

\* df.sort_values(by=c, ascending=...)
SortRows(rows, c, ascending) == Items(sort_values(Keyed(rows, c), ascending))

\* the keys in the order in which the rows first show them (an unsorted groupby)
GroupKeysUnsorted(rows, c, order) ==
    LET ks == {k \in Range(order) : \E i \in DOMAIN rows : rows[i][c] = k}
        first(k) == CHOOSE i \in DOMAIN rows :
                        rows[i][c] = k /\ \A h \in DOMAIN rows : rows[h][c] = k => i <= h
    IN  [p \in 1..Cardinality(ks) |->
            CHOOSE k \in ks : Cardinality({x \in ks : first(x) < first(k)}) = p - 1]

\* the keys of order that occur in column c, in that order (a sorted groupby;
\* rows whose key is missing or not in order fall in no group)
GroupKeys(rows, c, order) ==
    SelectSeq(order, LAMBDA k : \E i \in DOMAIN rows : rows[i][c] = k)

GroupRows(rows, c, k) == SelectSeq(rows, LAMBDA r : r[c] = k)

\* df.groupby(c)[v].mean() as a sequence of [key, value]
GroupMean(rows, c, order, v) ==
    LET ks == GroupKeys(rows, c, order)
    IN  [j \in DOMAIN ks |->
            [key |-> ks[j], value |-> Mean(Column(GroupRows(rows, c, ks[j]), v))]]

\* Series.sort_values() of a [key, value] series, by value
SortSeries(g, ascending) ==
    Items(sort_values([j \in DOMAIN g |-> [key |-> g[j].value, item |-> g[j]]], ascending))

\* df.groupby(c).size()
GroupSize(rows, c, order) ==
    LET ks == GroupKeys(rows, c, order)
    IN  [j \in DOMAIN ks |-> [key |-> ks[j], value |-> Len(GroupRows(rows, c, ks[j]))]]

\* the sample variance (ddof = 1); std() is its square root, nan for one value
Var(s) ==
    LET m == Mean(s)
        sq == [i \in DOMAIN s |-> FMul(FSub(s[i], m), FSub(s[i], m))]
    IN  FDiv(SumSeq(sq), Num(Len(s) - 1))

\* the department names in the order a sorted groupby lists them
DeptNames == <<"HR", "Sales">>

\* numpy's _lerp(a, b, t)
Lerp(a, b, t) ==
    IF FGe(t, Fin(1, 2))
    THEN FSub(b, FMul(FSub(b, a), FSub(Num(1), t)))
    ELSE FAdd(a, FMul(FSub(b, a), t))

Floor(n, d) == n \div d

\* Series.quantile(q) with q = qn/qd, linear interpolation between order statistics
quantile(s, qn, qd) ==
    LET n == Len(s)
        sorted == sort_values([i \in DOMAIN s |-> [key |-> s[i], item |-> s[i]]], TRUE)
        lo == Floor((n - 1) * qn, qd)
        hi == IF lo + 1 > n - 1 THEN n - 1 ELSE lo + 1
        t == Fin((n - 1) * qn - lo * qd, qd)
    IN  IF n = 0 THEN NaN
        ELSE Lerp(sorted[lo + 1].key, sorted[hi + 1].key, t)

bins == <<0, 2, 5, 10, 20, 100>>
labels == <<"1-2", "3-5", "6-10", "11-20", "20+">>

\* the label of the interval (bins[j], bins[j+1]] that holds x, if one does
Bin(x) ==
    LET hit == {j \in DOMAIN labels : FLt(Num(bins[j]), x) /\ FLe(x, Num(bins[j + 1]))}
    IN  IF hit = {} THEN NA ELSE labels[CHOOSE j \in hit : TRUE]

\* pd.cut(values, bins=bins, labels=labels)
cut(values) == [i \in DOMAIN values |-> Bin(values[i])]

\* pd.Categorical(values, categories=order): a value outside order becomes missing
Categorical(values, order) ==
    [i \in DOMAIN values |-> IF values[i] \in Range(order) THEN values[i] ELSE NA]

\* plotly's check of a marker size: a number >= 0 (nan fails it)
SizeOk(v) == FGe(v, Zero)

-----------------------------------------------------------------------------
(* The script.  Each block maps the state before it to the state after it: *)
(* [df, columns, shown, err].                                              *)

St(d, c, s, e) == [df |-> d, columns |-> c, shown |-> s, err |-> e]

\* the loop of lines 24-26 over the rows
CoerceTargets(rows, cols) ==
    [i \in DOMAIN rows |->
        [c \in cols |-> IF IsTarget(c) THEN Coerce(rows[i][c]) ELSE rows[i][c]]]

\* lines 17-19: the table as read, nothing shown yet
Loaded(file) == St(read_excel(file), file.columns, <<>>, "none")

\* lines 23-26
NormalizeBlock(st) == [st EXCEPT !.df = CoerceTargets(st.df, st.columns)]

\* lines 29-35
SummaryBlock(st) ==
    LET s1 == Put(st.shown, "headcount", Len(st.df))
        s2 == Put(s1, "mean_total", Mean(Column(st.df, Total)))
        s3 == IF PrevTotal \in st.columns
              THEN Put(s2, "mean_growth", Mean(Deltas(st.df)))
              ELSE s2
        s4 == Put(s3, "mean_tenure", Mean(Column(st.df, Tenure)))
    IN  IF Total \notin st.columns THEN St(st.df, st.columns, s1, "KeyError")
        ELSE IF Tenure \notin st.columns THEN St(st.df, st.columns, s3, "KeyError")
        ELSE St(st.df, st.columns, s4, "none")

\* lines 40-47
CategoricalBlock(st) ==
    LET d1 == IF Rank \in st.columns
              THEN WithColumn(st.df, Rank, Categorical(Column(st.df, Rank), rank_order))
              ELSE st.df
        d2 == IF Grade \in st.columns
              THEN WithColumn(d1, Grade, Categorical(Column(d1, Grade), grade_order))
              ELSE d1
    IN  [st EXCEPT !.df = d2]

\* line 61
rank_avg(rows) == GroupMean(rows, Rank, rank_order, Total)

\* lines 56-84
Tab1Block(st) ==
    LET s1 == Put(st.shown, "rank_avg", rank_avg(st.df))
        s2 == Put(s1, "fig_dept", ProjectAll(st.df, {Dept, Total}))
    IN  IF Rank \notin st.columns THEN st
        ELSE IF ~({Dept, Total, Name, EmpId} \subseteq st.columns)
             THEN [st EXCEPT !.shown = s1, !.err = "ValueError"]
        ELSE [st EXCEPT !.shown = s2]

\* lines 86-106
Tab2Block(st) ==
    LET need == {Competency, Performance, Grade, Total, Name, EmpId, Dept, Tenure}
        fig1 == [vline |-> Mean(Column(st.df, Competency)),
                 hline |-> Mean(Column(st.df, Performance))]
    IN  IF ~(need \subseteq st.columns) THEN [st EXCEPT !.err = "ValueError"]
        ELSE IF \E i \in DOMAIN st.df : ~SizeOk(st.df[i][Total])
             THEN [st EXCEPT !.err = "ValueError"]
        ELSE [st EXCEPT !.shown = Put(st.shown, "fig_9box", fig1)]

\* lines 108-131
Tab3Block(st) ==
    LET d1 == WithColumn(st.df, Change, Deltas(st.df))
    IN  IF PrevTotal \notin st.columns THEN st
        ELSE St(d1, st.columns \cup {Change},
                Put(st.shown, "fig_change", ProjectAll(d1, {PrevTotal, Total, Change})),
                "none")

\* line 137: value_counts().sort_index(), one count for every grade of the order
grade_counts(rows) ==
    [j \in DOMAIN grade_order |->
        [key |-> grade_order[j],
         value |-> Cardinality({i \in DOMAIN rows : rows[i][Grade] = grade_order[j]})]]

\* lines 133-139
Tab4Block(st) ==
    LET s1 == IF Grade \in st.columns
              THEN Put(st.shown, "grade_counts", grade_counts(st.df))
              ELSE st.shown
    IN  [st EXCEPT !.shown = Put(s1, "table", st.df)]

\* line 143
star_threshold(rows) == quantile(Column(rows, Total), 9, 10)

\* line 144
stars(rows) == SelectSeq(rows, LAMBDA r : FGe(r[Total], star_threshold(rows)))

\* lines 141-146
Tab5Block(st) ==
    LET s1 == Put(st.shown, "star_threshold", star_threshold(st.df))
    IN  [st EXCEPT !.shown = Put(s1, "stars", SortRows(stars(st.df), Total, FALSE))]

TopN == 5
DropLimit == -10

\* df.head(n)
head(rows, n) == SubSeq(rows, 1, IF Len(rows) < n THEN Len(rows) ELSE n)

\* .replace([np.inf, -np.inf], 0)
ReplaceInf(v) == IF IsInf(v) THEN Zero ELSE v

\* line 157, for one row
growth_pct(r) == ReplaceInf(FMul(FDiv(r[ScoreChange], r[PrevTotal]), Num(100)))

\* lines 154-157
WithGrowthColumns(rows) ==
    LET d1 == WithColumn(rows, ScoreChange, Deltas(rows))
        d2 == WithColumn(d1, AbsChange, [i \in DOMAIN d1 |-> FAbs(d1[i][ScoreChange])])
    IN  WithColumn(d2, GrowthPct, [i \in DOMAIN d2 |-> growth_pct(d2[i])])

\* line 163
top_improvers(rows) == head(SortRows(rows, ScoreChange, FALSE), TopN)

\* line 168
dept_growth(rows) == SortSeries(GroupMean(rows, Dept, DeptNames, ScoreChange), TRUE)

\* lines 148-199
Tab6Block(st) ==
    LET d == WithGrowthColumns(st.df)
        cs == st.columns \cup {ScoreChange, AbsChange, GrowthPct}
        s1 == Put(st.shown, "top_improvers",
                  ProjectAll(top_improvers(d), {Name, Dept, PrevTotal, Total, ScoreChange}))
        s2 == Put(s1, "dept_growth", dept_growth(d))
        s3 == Put(s2, "fig_growth", ProjectAll(d, {PrevTotal, Total, Dept, AbsChange}))
    IN  IF PrevTotal \notin st.columns
        THEN [st EXCEPT !.shown = Put(st.shown, "notice_no_prev_total", TRUE)]
        ELSE IF \E i \in DOMAIN d : ~SizeOk(d[i][AbsChange])
             THEN St(d, cs, s2, "ValueError")
        ELSE St(d, cs, s3, "none")

\* line 207
potential_risk(rows) ==
    LET mc == Mean(Column(rows, Competency))
        mp == Mean(Column(rows, Performance))
    IN  SelectSeq(rows, LAMBDA r : FGt(r[Competency], mc) /\ FLt(r[Performance], mp))

\* the rows that fell by more than the limit only
warning_drop_strict(rows) ==
    SortRows(SelectSeq(rows, LAMBDA r : FLt(r[ScoreDiff], Num(DropLimit))), ScoreDiff, TRUE)

\* line 212
warning_drop(rows) ==
    SortRows(SelectSeq(rows, LAMBDA r : FLe(r[ScoreDiff], Num(DropLimit))), ScoreDiff, TRUE)

\* line 234; the value kept is the variance, whose order is that of std()
dept_std(rows) ==
    LET ks == GroupKeys(rows, Dept, DeptNames)
        g == [j \in DOMAIN ks |->
                [key |-> ks[j], value |-> Var(Column(GroupRows(rows, Dept, ks[j]), Total))]]
    IN  SortSeries(g, FALSE)

\* the dispersion chart drawn only under the prior-year guard
Tab7Block_guarded(st) ==
    LET risk == potential_risk(st.df)
        has == PrevTotal \in st.columns
        d == IF has THEN WithColumn(st.df, ScoreDiff, Deltas(st.df)) ELSE st.df
        cs == IF has THEN st.columns \cup {ScoreDiff} ELSE st.columns
        s1 == Put(st.shown, "potential_risk_count", Len(risk))
        s2 == Put(s1, "potential_risk",
                  ProjectAll(risk, {EmpId, Name, Dept, Rank, Competency, Performance}))
        s3 == IF has
              THEN Put(Put(s2, "warning_drop",
                           ProjectAll(warning_drop(d),
                                      {EmpId, Name, Dept, Rank, Total, ScoreDiff})),
                       "dept_std", dept_std(d))
              ELSE Put(s2, "notice_no_drop", TRUE)
    IN  IF Rank \notin st.columns THEN St(d, cs, s1, "KeyError")
        ELSE St(d, cs, s3, "none")

\* lines 201-237
Tab7Block(st) ==
    LET risk == potential_risk(st.df)
        has == PrevTotal \in st.columns
        d == IF has THEN WithColumn(st.df, ScoreDiff, Deltas(st.df)) ELSE st.df
        cs == IF has THEN st.columns \cup {ScoreDiff} ELSE st.columns
        s1 == Put(st.shown, "potential_risk_count", Len(risk))
        s2 == Put(s1, "potential_risk",
                  ProjectAll(risk, {EmpId, Name, Dept, Rank, Competency, Performance}))
        s3 == IF has
              THEN Put(s2, "warning_drop",
                       ProjectAll(warning_drop(d), {EmpId, Name, Dept, Rank, Total, ScoreDiff}))
              ELSE Put(s2, "notice_no_drop", TRUE)
    IN  IF Rank \notin st.columns THEN St(d, cs, s1, "KeyError")
        ELSE St(d, cs, Put(s3, "dept_std", dept_std(d)), "none")

\* the ratio without its fillna(0)
talent_density_nofill(rows) ==
    LET dept_total == GroupSize(rows, Dept, DeptNames)
        dept_stars ==
            GroupSize(SelectSeq(rows, LAMBDA r : r[Grade] \in {"S", "A"}), Dept, DeptNames)
        StarsOf(k) == IF \E j \in DOMAIN dept_stars : dept_stars[j].key = k
                      THEN Num((CHOOSE g \in Range(dept_stars) : g.key = k).value)
                      ELSE NaN
        ratio == [j \in DOMAIN dept_total |->
                    [key |-> dept_total[j].key,
                     value |-> FMul(FDiv(StarsOf(dept_total[j].key),
                                         Num(dept_total[j].value)), Num(100))]]
    IN  SortSeries(ratio, FALSE)

\* lines 245-247
talent_density(rows) ==
    LET dept_total == GroupSize(rows, Dept, DeptNames)
        dept_stars ==
            GroupSize(SelectSeq(rows, LAMBDA r : r[Grade] \in {"S", "A"}), Dept, DeptNames)
        StarsOf(k) == IF \E j \in DOMAIN dept_stars : dept_stars[j].key = k
                      THEN Num((CHOOSE g \in Range(dept_stars) : g.key = k).value)
                      ELSE NaN
        ratio == [j \in DOMAIN dept_total |->
                    [key |-> dept_total[j].key,
                     value |-> fillna(FMul(FDiv(StarsOf(dept_total[j].key),
                                                Num(dept_total[j].value)), Num(100)), Zero)]]
    IN  SortSeries(ratio, FALSE)

\* lines 276-279: one [rank, metric, value] row per rank for each metric in turn
rank_balance(rows) ==
    LET melt(v) == LET g == GroupMean(rows, Rank, rank_order, v)
                   IN  [j \in DOMAIN g |-> [rank |-> g[j].key, metric |-> v, value |-> g[j].value]]
    IN  melt(Competency) \o melt(Performance)

\* lines 239-285
Tab8Block(st) ==
    LET d == WithColumn(st.df, TenureBin, cut(Column(st.df, Tenure)))
        s1 == Put(st.shown, "talent_density", talent_density(st.df))
        s2 == Put(s1, "tenure_perf", GroupMean(d, TenureBin, labels, Total))
        s3 == Put(s2, "rank_balance", rank_balance(d))
    IN  St(d, st.columns \cup {TenureBin}, s3, "none")

-----------------------------------------------------------------------------
(* The run: the blocks in script order.                                    *)

\* the state the next block starts from
Cur == St(df, columns, shown, err)

\* the block's result r becomes the state; a raised exception ends the run
Finish(r, next) ==
    /\ df' = r.df
    /\ columns' = r.columns
    /\ shown' = r.shown
    /\ err' = r.err
    /\ pc' = IF r.err = "none" THEN next ELSE "error"
    /\ UNCHANGED uploaded_file

\* line 17: the file is read once one is uploaded
Load ==
    /\ pc = "load"
    /\ Finish(Loaded(uploaded_file), "normalize")

Normalize ==
    /\ pc = "normalize"
    /\ Finish(NormalizeBlock(Cur), "summary")

Summary ==
    /\ pc = "summary"
    /\ Finish(SummaryBlock(Cur), "categorical")

Categorize ==
    /\ pc = "categorical"
    /\ Finish(CategoricalBlock(Cur), "tab1")

Tab1 ==
    /\ pc = "tab1"
    /\ Finish(Tab1Block(Cur), "tab2")

Tab2 ==
    /\ pc = "tab2"
    /\ Finish(Tab2Block(Cur), "tab3")

Tab3 ==
    /\ pc = "tab3"
    /\ Finish(Tab3Block(Cur), "tab4")

Tab4 ==
    /\ pc = "tab4"
    /\ Finish(Tab4Block(Cur), "tab5")

Tab5 ==
    /\ pc = "tab5"
    /\ Finish(Tab5Block(Cur), "tab6")

Tab6 ==
    /\ pc = "tab6"
    /\ Finish(Tab6Block(Cur), "tab7")

Tab7 ==
    /\ pc = "tab7"
    /\ Finish(Tab7Block(Cur), "tab8")

Tab8 ==
    /\ pc = "tab8"
    /\ Finish(Tab8Block(Cur), "done")

-----------------------------------------------------------------------------
(* The uploaded sheets.                                                    *)

MaxRows == 2

\* a well-formed row for position i of a sheet
DefaultRow(i) ==
    [c \in InputColumns |->
        CASE c = Dept -> DeptNames[((i - 1) % 2) + 1]
          [] c = Rank -> rank_order[((i - 1) % 5) + 1]
          [] c = Grade -> grade_order[((i - 1) % 5) + 1]
          [] c = Total -> NumCell(Num(70 + (10 * i)))
          [] c = PrevTotal -> NumCell(Num(85))
          [] c = Competency -> NumCell(Num(60 + (10 * i)))
          [] c = Performance -> NumCell(Num(90 - (10 * i)))
          [] c = Tenure -> NumCell(Num(3 * i))
          [] c = EmpId -> i
          [] OTHER -> "emp"]

\* the sheets of up to MaxRows rows with the given headers whose i-th row is
\* Build(i, ch) for some choice ch
Sheets(cols, Choices, Build(_, _)) ==
    UNION {
        {[columns |-> cols, rows |-> [i \in 1..n |-> Project(Build(i, f[i]), cols)]] :
            f \in [1..n -> Choices]}
        : n \in 0..MaxRows}

\* cells of the score columns: numbers, an empty cell, texts
TotalCells ==
    {NumCell(Num(80)), NumCell(Num(90)), TextCell("inf"), TextCell("abc")}
PrevCells ==
    {NumCell(Num(0)), NumCell(Fin(8999, 100)), NumCell(Num(90)), TextCell("Infinity")}

ScoreSheets ==
    Sheets(InputColumns, TotalCells \X PrevCells,
           LAMBDA i, ch : [DefaultRow(i) EXCEPT ![Total] = ch[1], ![PrevTotal] = ch[2]])

\* sheets that vary department, rank and grade, some outside the enumerations
GroupSheets ==
    Sheets(InputColumns, {"HR", "Sales"} \X {"bujang", "sawon", "intern"} \X {"S", "C"},
           LAMBDA i, ch : [DefaultRow(i) EXCEPT ![Dept] = ch[1], ![Rank] = ch[2],
                                                ![Grade] = ch[3]])

\* sheets that vary competency, performance and tenure
SkillSheets ==
    Sheets(InputColumns,
           {NumCell(Num(60)), BlankCell} \X {NumCell(Num(70)), TextCell("-3")}
               \X {NumCell(Num(2)), NumCell(Fin(201, 100)), BlankCell},
           LAMBDA i, ch : [DefaultRow(i) EXCEPT ![Competency] = ch[1],
                                                ![Performance] = ch[2], ![Tenure] = ch[3]])

\* sheets with one header, or none, left out
HeaderSheets ==
    UNION {Sheets(InputColumns \ miss, {"S", "C", "X"},
                  LAMBDA i, ch : [DefaultRow(i) EXCEPT ![Grade] = ch])
           : miss \in {{}} \cup {{c} : c \in InputColumns}}

\* total scores 1 .. 100, one per row
CenturySheet ==
    [columns |-> InputColumns,
     rows |-> [i \in 1..100 |-> [DefaultRow(i) EXCEPT ![Total] = NumCell(Num(i))]]]

Uploads == ScoreSheets \cup GroupSheets \cup SkillSheets \cup HeaderSheets \cup {CenturySheet}

Init ==
    /\ uploaded_file \in Uploads
    /\ columns = {}
    /\ df = <<>>
    /\ shown = <<>>
    /\ pc = "load"
    /\ err = "none"

Next ==
    \/ Load
    \/ Normalize
    \/ Summary
    \/ Categorize
    \/ Tab1
    \/ Tab2
    \/ Tab3
    \/ Tab4
    \/ Tab5
    \/ Tab6
    \/ Tab7
    \/ Tab8

Spec == Init /\ [][Next]_vars

-----------------------------------------------------------------------------
(* Properties of a run, stated over the state above.                      *)

\* b applied to st unless an exception has already ended the run
Then(st, b(_)) == IF st.err = "none" THEN b(st) ELSE st

\* the whole script over one sheet
FullRun(file) ==
    Then(Then(Then(Then(Then(Then(Then(Then(Then(Then(Then(
        Loaded(file), NormalizeBlock), SummaryBlock), CategoricalBlock),
        Tab1Block), Tab2Block), Tab3Block), Tab4Block), Tab5Block),
        Tab6Block), Tab7Block), Tab8Block)

\* the headers the sheet lacks
Missing == InputColumns \ uploaded_file.columns

\* numeric normalisation is over
Started == pc \notin {"load", "normalize"}

\* the table as it stands right after numeric normalisation
Normalized == NormalizeBlock(Loaded(uploaded_file)).df

IsShown(a) == a \in DOMAIN shown

\* the derived artifacts and the input columns each is computed from
Needs(a) ==
    CASE a = "headcount" -> {}
      [] a = "mean_total" -> {Total}
      [] a = "mean_growth" -> {Total, PrevTotal}
      [] a = "mean_tenure" -> {Tenure}
      [] a = "rank_avg" -> {Rank, Total}
      [] a = "grade_counts" -> {Grade}
      [] a = "star_threshold" -> {Total}
      [] a = "stars" -> {Total}
      [] a = "fig_change" -> {Total, PrevTotal}
      [] a = "top_improvers" -> {Total, PrevTotal}
      [] a = "dept_growth" -> {Dept, Total, PrevTotal}
      [] a = "fig_growth" -> {Total, PrevTotal}
      [] a = "potential_risk" -> {Competency, Performance}
      [] a = "warning_drop" -> {Total, PrevTotal}
      [] a = "dept_std" -> {Dept, Total}
      [] a = "talent_density" -> {Dept, Grade}
      [] a = "tenure_perf" -> {Tenure, Total}
      [] a = "rank_balance" -> {Rank, Competency, Performance}

YearOverYear ==
    {"mean_growth", "fig_change", "top_improvers", "dept_growth", "fig_growth", "warning_drop"}

Independent ==
    {"headcount", "mean_total", "mean_tenure", "rank_avg", "grade_counts", "star_threshold",
     "stars", "potential_risk", "dept_std", "talent_density", "tenure_perf", "rank_balance"}

Artifacts == YearOverYear \cup Independent

\* C1: with exactly one optional column other than the prior-year total
\* missing the run never aborts, and at its end exactly the artifacts that do
\* not depend on that column are shown.
C1_DegradedMode ==
    \A c \in {Grade, Competency, Performance, Tenure, EmpId, Name} :
        Missing = {c} =>
            /\ pc # "error"
            /\ pc = "done" => \A a \in Artifacts : IsShown(a) <=> (c \notin Needs(a))

\* the sheet with a prior-year total column of the given cells added
WithPrevTotal(file, cell) ==
    [columns |-> file.columns \cup {PrevTotal},
     rows |-> [i \in DOMAIN file.rows |-> Put(file.rows[i], PrevTotal, cell)]]

\* artifact a as shown by a run, its rows cut to the columns of the sheet
OnSheetColumns(a, v) ==
    IF a = "stars" THEN ProjectAll(v, uploaded_file.columns) ELSE v

\* C2: with the prior-year total column missing (and no other), the run does
\* not abort, no year-over-year artifact is ever shown and no year-over-year
\* column is ever computed, the two notices stand in for them, and every other
\* artifact is shown with the value the same sheet yields with the column
\* present.
C2_PrevTotalAbsent ==
    Missing = {PrevTotal} =>
        /\ pc # "error"
        /\ DOMAIN shown \cap YearOverYear = {}
        /\ columns \cap {Change, ScoreChange, AbsChange, GrowthPct, ScoreDiff} = {}
        /\ pc = "done" =>
               /\ IsShown("notice_no_prev_total")
               /\ IsShown("notice_no_drop")
               /\ \A cell \in {NumCell(Num(85)), NumCell(Num(0))} :
                      LET with == FullRun(WithPrevTotal(uploaded_file, cell))
                      IN  /\ with.err = "none"
                          /\ YearOverYear \subseteq DOMAIN with.shown
                          /\ \A a \in Independent :
                                 /\ IsShown(a)
                                 /\ OnSheetColumns(a, shown[a])
                                        = OnSheetColumns(a, with.shown[a])

\* a run over a two-row sheet without the prior-year column, at its end
C2_Witness ==
    /\ Missing = {PrevTotal}
    /\ pc = "done"
    /\ Len(df) = 2
    /\ Len(shown["stars"]) = 1

\* C3: with a required column (department, rank, total score) missing,
\* nothing at all is ever shown for the upload.
C3_NothingShown ==
    Missing \cap {Dept, Rank, Total} # {} => DOMAIN shown = {}

\* C4: after normalisation every cell of a present numeric target column is a
\* finite float, and 0.0 where the sheet's cell was empty or not a number.
C4_FiniteCells ==
    Started =>
        \A i \in DOMAIN df :
            \A c \in uploaded_file.columns :
                IsTarget(c) =>
                    /\ IsFin(df[i][c])
                    /\ uploaded_file.rows[i][c].t = "blank" => df[i][c] = Zero
                    /\ (uploaded_file.rows[i][c].t = "text"
                        /\ IsNaN(ParseFloat(uploaded_file.rows[i][c].s))) => df[i][c] = Zero

\* C5: the growth percent of a row is 0 when its prior-year total is 0 (the
\* total being positive, negative or 0), and (total - prior) / prior * 100
\* otherwise; stated for the rows whose two scores are finite numbers.
C5_GrowthPercent ==
    GrowthPct \in columns =>
        \A i \in DOMAIN df :
            LET t == df[i][Total]
                p == df[i][PrevTotal]
            IN  (IsFin(t) /\ IsFin(p)) =>
                    IF p = Zero THEN df[i][GrowthPct] = Zero
                    ELSE df[i][GrowthPct] = Fin((t.n * p.d - p.n * t.d) * p.d * 100,
                                                t.d * p.d * p.n)

\* C10: once normalised, the table keeps its rows and every input column
\* keeps its normalised value; the blocks only append derived columns.
C10_InputColumnsKept ==
    Started =>
        /\ Len(df) = Len(Normalized)
        /\ columns \ uploaded_file.columns \subseteq DerivedColumns
        /\ \A i \in DOMAIN df :
               \A c \in uploaded_file.columns : df[i][c] = Normalized[i][c]

\* the position of k in order
IndexIn(order, k) == CHOOSE j \in DOMAIN order : order[j] = k

\* the rows of the normalised table whose column c holds k
RowsWith(c, k) == {i \in DOMAIN Normalized : Normalized[i][c] = k}

\* the exact mean of column v over the rows I of the normalised table
MeanOver(I, v) ==
    Mean([j \in 1..Cardinality(I) |->
            Normalized[CHOOSE i \in I : Cardinality({h \in I : h < i}) = j - 1][v]])

\* the rows in another order: row j of the result is row f[j]
Permuted(rows, f) == [j \in DOMAIN rows |-> rows[f[j]]]

\* the [key, value] series g lists, in the order of the enumeration, exactly
\* the ranks of the enumeration that occur in the sheet, each with the mean
\* of column v over the rows of that rank
RankSeriesOk(g, v) ==
    /\ \A j, k \in DOMAIN g : j < k => IndexIn(rank_order, g[j].key) < IndexIn(rank_order, g[k].key)
    /\ {g[j].key : j \in DOMAIN g} = {k \in Range(rank_order) : RowsWith(Rank, k) # {}}
    /\ \A j \in DOMAIN g : g[j].value = MeanOver(RowsWith(Rank, g[j].key), v)

OfMetric(b, m) ==
    LET sel == SelectSeq(b, LAMBDA e : e.metric = m)
    IN  [j \in DOMAIN sel |-> [key |-> sel[j].rank, value |-> sel[j].value]]

\* C6: the per-rank means (of the total score, and of competency and
\* performance) and the per-grade counts come in the order of the
\* enumerations whatever the order of the rows; a row whose rank or grade is
\* outside the enumeration is counted in no group.
C6_EnumerationOrder ==
    /\ IsShown("rank_avg") =>
           /\ RankSeriesOk(shown["rank_avg"], Total)
           /\ Len(df) <= MaxRows + 1 =>
                  \A f \in Permutations(1..Len(df)) : rank_avg(Permuted(df, f)) = shown["rank_avg"]
    /\ IsShown("rank_balance") =>
           /\ RankSeriesOk(OfMetric(shown["rank_balance"], Competency), Competency)
           /\ RankSeriesOk(OfMetric(shown["rank_balance"], Performance), Performance)
           /\ Len(df) <= MaxRows + 1 =>
                  \A f \in Permutations(1..Len(df)) :
                      rank_balance(Permuted(df, f)) = shown["rank_balance"]
    /\ IsShown("grade_counts") =>
           LET g == shown["grade_counts"]
           IN  /\ \A j, k \in DOMAIN g :
                      j < k => IndexIn(grade_order, g[j].key) < IndexIn(grade_order, g[k].key)
               /\ \A j \in DOMAIN g : g[j].value = Cardinality(RowsWith(Grade, g[j].key))
               /\ \A k \in Range(grade_order) :
                      RowsWith(Grade, k) # {} => \E j \in DOMAIN g : g[j].key = k

\* two rows in the reverse of the rank order, and a third rank that is no rank
\* of the enumeration, with the means shown
C6_Witness ==
    /\ IsShown("rank_balance")
    /\ IsShown("grade_counts")
    /\ Len(shown["rank_avg"]) = 2
    /\ Len(Normalized) = 2
    /\ Normalized[1][Rank] = "sawon"
    /\ Normalized[2][Rank] = "bujang"

\* the score delta of row i of the normalised table
DeltaOf(i) == FSub(Normalized[i][Total], Normalized[i][PrevTotal])

\* C7: the shock-drop list holds exactly the rows whose delta (total - prior)
\* is <= -10, each once, ordered by delta ascending.
C7_ShockDrop ==
    IsShown("warning_drop") =>
        LET w == shown["warning_drop"]
            hit == {i \in DOMAIN Normalized : FLe(DeltaOf(i), Num(-10))}
        IN  /\ {w[j][EmpId] : j \in DOMAIN w} = {Normalized[i][EmpId] : i \in hit}
            /\ Len(w) = Cardinality(hit)
            /\ \A j \in DOMAIN w : w[j][ScoreDiff] = DeltaOf(w[j][EmpId])
            /\ \A j, k \in DOMAIN w : j < k => FLe(w[j][ScoreDiff], w[k][ScoreDiff])

\* a row with delta exactly -10 is listed and a row with delta -9.99 is not
C7_Witness ==
    /\ IsShown("warning_drop")
    /\ \E j \in DOMAIN shown["warning_drop"] : shown["warning_drop"][j][ScoreDiff] = Num(-10)
    /\ \E i \in DOMAIN Normalized :
           /\ DeltaOf(i) = Fin(-999, 100)
           /\ \A j \in DOMAIN shown["warning_drop"] : shown["warning_drop"][j][EmpId] # i

\* C8: the talent-density table has one entry per department of the sheet,
\* 100 * (its rows graded S or A) / (its rows), 0 for a department with no such
\* row, ordered by value descending.
C8_TalentDensity ==
    IsShown("talent_density") =>
        LET t == shown["talent_density"]
            depts == {Normalized[i][Dept] : i \in DOMAIN Normalized} \ {NA}
            top(d) == {i \in RowsWith(Dept, d) : Normalized[i][Grade] \in {"S", "A"}}
        IN  /\ {t[j].key : j \in DOMAIN t} = depts
            /\ Len(t) = Cardinality(depts)
            /\ \A j \in DOMAIN t :
                   t[j].value = Fin(100 * Cardinality(top(t[j].key)),
                                    Cardinality(RowsWith(Dept, t[j].key)))
            /\ \A j, k \in DOMAIN t : j < k => FGe(t[j].value, t[k].value)

\* a department without any S or A row is listed with 0, after one with some
C8_Witness ==
    /\ IsShown("talent_density")
    /\ Len(shown["talent_density"]) = 2
    /\ shown["talent_density"][1].value # Zero
    /\ shown["talent_density"][2].value = Zero

\* the 90th percentile of the total scores by linear interpolation between
\* the order statistics around position 0.9 * (n - 1)
P90 ==
    LET n == Len(Normalized)
        x == sort_values([i \in 1..n |-> [key |-> Normalized[i][Total], item |-> i]], TRUE)
        lo == (9 * (n - 1)) \div 10
        hi == IF lo + 2 > n THEN n ELSE lo + 2
    IN  IF n = 0 THEN NaN
        ELSE FAdd(x[lo + 1].key,
                  FMul(FSub(x[hi].key, x[lo + 1].key), Fin(9 * (n - 1) - 10 * lo, 10)))

\* C9: the Core Talent list is the rows whose total score is >= the 90th
\* percentile, by total score descending; totals 1..100 give the threshold
\* 90.1 and 10 rows; a sheet with rows always has a row that qualifies.
C9_CoreTalent ==
    IsShown("stars") =>
        LET l == shown["stars"]
            hit == {i \in DOMAIN Normalized : FGe(Normalized[i][Total], P90)}
        IN  /\ {l[j][EmpId] : j \in DOMAIN l} = hit
            /\ Len(l) = Cardinality(hit)
            /\ \A j, k \in DOMAIN l : j < k => FGe(l[j][Total], l[k][Total])
            /\ uploaded_file = CenturySheet =>
                   shown["star_threshold"] = Fin(901, 10) /\ Len(l) = 10
            /\ Len(Normalized) > 0 => Len(l) >= 1

====
